---- MODULE Spec2Model ----
(***************************************************************************)
(* Model of homework.py: a bot that polls the homework-review API and      *)
(* relays status changes to a Telegram chat.                               *)
(*                                                                         *)
(* Python values are tagged records of one shape (t = type name), so that  *)
(* a decoded JSON body of any type can flow through the code the way it    *)
(* does in Python.  A dict keeps its keys in insertion order (keys[i] maps *)
(* to items[i]).  Texts are sequences of string pieces; str.format         *)
(* concatenates pieces.  The Russian message templates of the source are   *)
(* rendered in ASCII.                                                      *)
(***************************************************************************)
EXTENDS Naturals, Sequences, FiniteSets, TLC

(* ------------------------------ bounds -------------------------------- *)
\* current_date values the server supplies are 1..MaxDate
MaxDate == 2
\* int(time.time()) at startup is one of 1..MaxStart
MaxStart == 1

(* --------------------------- Python values ---------------------------- *)
JNull == [t |-> "NoneType", n |-> 0, s |-> "", keys |-> <<>>, items |-> <<>>]
JBool(b) == [t |-> "bool", n |-> IF b THEN 1 ELSE 0, s |-> "", keys |-> <<>>, items |-> <<>>]
JInt(i) == [t |-> "int", n |-> i, s |-> "", keys |-> <<>>, items |-> <<>>]
JStr(x) == [t |-> "str", n |-> 0, s |-> x, keys |-> <<>>, items |-> <<>>]
JList(xs) == [t |-> "list", n |-> 0, s |-> "", keys |-> <<>>, items |-> xs]
JDict(ks, xs) == [t |-> "dict", n |-> 0, s |-> "", keys |-> ks, items |-> xs]

\* key in d, for a dict d
HasKey(d, k) == \E i \in 1..Len(d.keys) : d.keys[i] = k

\* d.get(k, default), for a dict d
DictGet(d, k, default) ==
  IF HasKey(d, k)
    THEN d.items[CHOOSE i \in 1..Len(d.keys) : d.keys[i] = k]
    ELSE default

\* bool(v)
Truthy(v) ==
  CASE v.t = "NoneType" -> FALSE
    [] v.t = "bool" -> v.n = 1
    [] v.t = "int" -> v.n # 0
    [] v.t = "str" -> v.s # ""
    [] v.t = "list" -> v.items # <<>>
    [] v.t = "dict" -> v.keys # <<>>

(* ------------------------------- texts -------------------------------- *)
Digit(d) == <<"0", "1", "2", "3", "4", "5", "6", "7", "8", "9">>[d + 1]

RECURSIVE IntStr(_)
IntStr(i) == IF i < 10 THEN <<Digit(i)>> ELSE IntStr(i \div 10) \o <<Digit(i % 10)>>

RECURSIVE Repr(_)
RECURSIVE ReprItems(_)
RECURSIVE ReprPairs(_, _)
\* repr(v)
Repr(v) ==
  CASE v.t = "NoneType" -> <<"None">>
    [] v.t = "bool" -> IF v.n = 1 THEN <<"True">> ELSE <<"False">>
    [] v.t = "int" -> IntStr(v.n)
    [] v.t = "str" -> <<"'", v.s, "'">>
    [] v.t = "list" -> <<"[">> \o ReprItems(v.items) \o <<"]">>
    [] v.t = "dict" -> <<"{">> \o ReprPairs(v.keys, v.items) \o <<"}">>
ReprItems(xs) ==
  IF xs = <<>> THEN <<>>
  ELSE IF Len(xs) = 1 THEN Repr(xs[1])
  ELSE Repr(xs[1]) \o <<", ">> \o ReprItems(Tail(xs))
ReprPairs(ks, xs) ==
  IF ks = <<>> THEN <<>>
  ELSE IF Len(ks) = 1 THEN <<"'", ks[1], "': ">> \o Repr(xs[1])
  ELSE <<"'", ks[1], "': ">> \o Repr(xs[1]) \o <<", ">> \o ReprPairs(Tail(ks), Tail(xs))

\* str(v), which '{}'.format(v) and f'{v}' use
Str(v) == IF v.t = "str" THEN <<v.s>> ELSE Repr(v)

\* '{}'.format(type(v))
TypeStr(v) == <<"<class '", v.t, "'>">>

(* ------------------------ module-level constants ---------------------- *)
RETRY_PERIOD == 600
ENDPOINT == <<"https://practicum.yandex.ru/api/user_api/homework_statuses/">>
HTTP_OK == 200

TokenNames == <<"PRACTICUM_TOKEN", "TELEGRAM_TOKEN", "TELEGRAM_CHAT_ID">>

\* os.getenv gives None for an unset variable, '' for an empty one
TokenValues == {JNull, JStr(""), JStr("secret")}

\* '{}'.format(HEADERS), HEADERS being {'Authorization': f'OAuth {PRACTICUM_TOKEN}'}
HEADERS(env) == <<"{'Authorization': 'OAuth ">> \o Str(env["PRACTICUM_TOKEN"]) \o <<"'}">>

HOMEWORK_VERDICTS ==
  JDict(<<"approved", "reviewing", "rejected">>,
        <<JStr("Work reviewed: the reviewer liked everything. Hooray!"),
          JStr("Work taken for review by the reviewer."),
          JStr("Work reviewed: the reviewer has remarks.")>>)

MISSING_TOKENS_MESSAGE(x) == <<"Required environment variables are missing: ">> \o x
BOT_SENT_MESSAGE_TEMPLATE(x) == <<"Bot sent message: ">> \o x
SEND_MESSAGE_ERROR_TEMPLATE(x) == <<"Failure sending message: ">> \o x
REQUEST_ERROR_MESSAGE(x) == <<"Program failure: ">> \o x
API_STATUS_CODE_ERROR(a, b, c, d) ==
  <<"API response code: ">> \o a \o <<". Request: ">> \o b
    \o <<", headers: ">> \o c \o <<", parameters: ">> \o d
API_RESPONSE_ERROR(a, b) == <<"API returned an error: ">> \o a \o <<" - ">> \o b
RESPONSE_NOT_DICT_MESSAGE(x) == <<"API response is not a dict: ">> \o x
RESPONSE_MISSING_KEYS_MESSAGE(x) == <<"Expected keys are missing in API response: ">> \o x
RESPONSE_HOMEWORKS_NOT_LIST_MESSAGE(a, b) ==
  <<"Wrong homeworks data format (list expected, got ">> \o a \o <<"): ">> \o b
MISSING_HOMEWORK_NAME_MESSAGE(x) == <<"Homework name is missing: ">> \o x
MISSING_HOMEWORK_STATUS_MESSAGE(x) == <<"Homework status is missing: ">> \o x
UNEXPECTED_HOMEWORK_STATUS_MESSAGE(x) == <<"Unexpected homework status: ">> \o x
NO_NEW_UPDATES_MESSAGE == <<"No new updates">>
NETWORK_ERROR_MESSAGE == <<"Network error">>

(* --------------------- results of a call: value or raise -------------- *)
\* a call either returns val (a Python value) or msg (a text), or raises
\* the exception exc whose str() is err
Ok(v) == [ok |-> TRUE, val |-> v, msg |-> <<>>, exc |-> "", err |-> <<>>]
OkMsg(m) == [ok |-> TRUE, val |-> JNull, msg |-> m, exc |-> "", err |-> <<>>]
Raise(e, text) == [ok |-> FALSE, val |-> JNull, msg |-> <<>>, exc |-> e, err |-> text]

LogEntry(lvl, text, a) == [level |-> lvl, text |-> text, arg |-> a]

\* the strings of the model that contain sub as a substring
Superstrings(sub) ==
  CASE sub = "code" -> {"code", "error code"}
    [] sub = "error" -> {"error", "error code", "server error"}
    [] OTHER -> {sub}

\* k in v, for a str k and any Python value v
In(k, v) ==
  CASE v.t = "dict" -> Ok(JBool(HasKey(v, k)))
    [] v.t = "list" -> Ok(JBool(\E i \in 1..Len(v.items) : v.items[i] = JStr(k)))
    [] v.t = "str" -> Ok(JBool(v.s \in Superstrings(k)))
    [] OTHER -> Raise("TypeError", <<"argument of type '", v.t, "' is not iterable">>)

\* v.get(k), which only a dict has
GetAttrGet(v, k) ==
  IF v.t = "dict" THEN Ok(DictGet(v, k, JNull))
  ELSE Raise("AttributeError", <<"'", v.t, "' object has no attribute 'get'">>)

(* ------------------------------ check_tokens -------------------------- *)
check_tokens(env) ==
  LET tokens == <<env["PRACTICUM_TOKEN"], env["TELEGRAM_TOKEN"], env["TELEGRAM_CHAT_ID"]>>
      missing_tokens == SelectSeq(tokens, LAMBDA token : ~Truthy(token))
  IN  IF missing_tokens # <<>>
        THEN [ret |-> FALSE,
              log |-> <<LogEntry("CRITICAL",
                                 MISSING_TOKENS_MESSAGE(Repr(JList(missing_tokens))),
                                 JList(missing_tokens))>>]
        ELSE [ret |-> TRUE, log |-> <<>>]

(* ------------------------------ send_message -------------------------- *)
\* the except clause left out: a failed delivery raises
send_message_raising(message, delivery) ==
  IF delivery.ok
    THEN [raised |-> FALSE, ret |-> JNull, err |-> <<>>,
          log |-> <<LogEntry("DEBUG", BOT_SENT_MESSAGE_TEMPLATE(message), JNull)>>]
    ELSE [raised |-> TRUE, ret |-> JNull, err |-> delivery.cause, log |-> <<>>]

\* delivery is the outcome of bot.send_message: it returns (ok), or raises
\* an exception whose str() is cause.  send_message has no return
\* statement: it returns None on both paths, and its except clause lets no
\* Exception out.
send_message(message, delivery) ==
  IF delivery.ok
    THEN [raised |-> FALSE, ret |-> JNull, err |-> <<>>,
          log |-> <<LogEntry("DEBUG", BOT_SENT_MESSAGE_TEMPLATE(message), JNull)>>]
    ELSE [raised |-> FALSE, ret |-> JNull, err |-> <<>>,
          log |-> <<LogEntry("ERROR", SEND_MESSAGE_ERROR_TEMPLATE(delivery.cause), JNull)>>]

(* ------------------------------ get_api_answer ------------------------ *)
\* reply is what requests.get does for this call: transport = "fail" raises
\* a RequestException whose str() is cause; otherwise a response with the
\* given status whose json() returns body, or raises when ~decodes.
get_api_answer(timestamp, reply, env) ==
  IF reply.transport = "fail"
    THEN Raise("RuntimeError", REQUEST_ERROR_MESSAGE(reply.cause))
  ELSE IF reply.status # HTTP_OK
    THEN Raise("HTTPError",
               API_STATUS_CODE_ERROR(IntStr(reply.status), ENDPOINT, HEADERS(env),
                                     Repr(JDict(<<"from_date">>, <<timestamp>>))))
  ELSE IF ~reply.decodes
    THEN Raise("JSONDecodeError", <<"Expecting value: line 1 column 1 (char 0)">>)
  ELSE
    LET json_response == reply.body
        hasCode == In("code", json_response)
        hasError == In("error", json_response)
        code == GetAttrGet(json_response, "code")
        error == GetAttrGet(json_response, "error")
    IN  IF ~hasCode.ok THEN hasCode
        ELSE IF hasCode.val.n = 0 /\ ~hasError.ok THEN hasError
        ELSE IF hasCode.val.n = 1 \/ hasError.val.n = 1
          THEN IF ~code.ok THEN code
               ELSE IF ~error.ok THEN error
               ELSE Raise("HTTPError", API_RESPONSE_ERROR(Str(code.val), Str(error.val)))
        ELSE Ok(json_response)

(* ------------------------------ check_response ------------------------ *)
\* the type of homeworks not checked
check_response_loose(response) ==
  IF response.t # "dict"
    THEN Raise("TypeError", RESPONSE_NOT_DICT_MESSAGE(Str(response)))
  ELSE IF ~HasKey(response, "homeworks")
    THEN Raise("ValueError", RESPONSE_MISSING_KEYS_MESSAGE(Str(response)))
  ELSE Ok(DictGet(response, "homeworks", JNull))

check_response(response) ==
  IF response.t # "dict"
    THEN Raise("TypeError", RESPONSE_NOT_DICT_MESSAGE(Str(response)))
  ELSE IF ~HasKey(response, "homeworks")
    THEN Raise("ValueError", RESPONSE_MISSING_KEYS_MESSAGE(Str(response)))
  ELSE
    LET homeworks == DictGet(response, "homeworks", JNull)
    IN  IF homeworks.t # "list"
          THEN Raise("TypeError",
                     RESPONSE_HOMEWORKS_NOT_LIST_MESSAGE(TypeStr(homeworks), Str(homeworks)))
          ELSE Ok(homeworks)

(* ------------------------------ parse_status -------------------------- *)
\* status not in HOMEWORK_VERDICTS hashes status first
NotInVerdicts(status) ==
  IF status.t \in {"list", "dict"}
    THEN Raise("TypeError", <<"unhashable type: '", status.t, "'">>)
    ELSE Ok(JBool(~(status.t = "str" /\ HasKey(HOMEWORK_VERDICTS, status.s))))

\* the status not checked against HOMEWORK_VERDICTS
parse_status_lenient(homework) ==
  LET name == GetAttrGet(homework, "homework_name")
      status == GetAttrGet(homework, "status")
  IN  IF ~name.ok THEN name
      ELSE IF ~HasKey(homework, "homework_name")
        THEN Raise("TypeError", MISSING_HOMEWORK_NAME_MESSAGE(Str(homework)))
      ELSE IF ~HasKey(homework, "status")
        THEN Raise("TypeError", MISSING_HOMEWORK_STATUS_MESSAGE(Str(homework)))
      ELSE
        LET verdict == IF status.val.t = "str"
                         THEN DictGet(HOMEWORK_VERDICTS, status.val.s, JNull)
                         ELSE JNull
        IN  OkMsg(<<"Review status changed for \"">> \o Str(name.val)
                   \o <<"\". ">> \o Str(verdict))

parse_status(homework) ==
  LET name == GetAttrGet(homework, "homework_name")
      status == GetAttrGet(homework, "status")
  IN  IF ~name.ok THEN name
      ELSE IF ~HasKey(homework, "homework_name")
        THEN Raise("TypeError", MISSING_HOMEWORK_NAME_MESSAGE(Str(homework)))
      ELSE IF ~HasKey(homework, "status")
        THEN Raise("TypeError", MISSING_HOMEWORK_STATUS_MESSAGE(Str(homework)))
      ELSE IF ~NotInVerdicts(status.val).ok THEN NotInVerdicts(status.val)
      ELSE IF NotInVerdicts(status.val).val.n = 1
        THEN Raise("TypeError", UNEXPECTED_HOMEWORK_STATUS_MESSAGE(Str(status.val)))
      ELSE
        LET verdict == DictGet(HOMEWORK_VERDICTS, status.val.s, JNull)
        IN  OkMsg(<<"Review status changed for \"">> \o Str(name.val)
                   \o <<"\". ">> \o Str(verdict))

(* ------------------------- the environment's inputs ------------------- *)
Hw(name, status) == JDict(<<"homework_name", "status">>, <<JStr(name), JStr(status)>>)
WithDate(hws, d) == JDict(<<"homeworks", "current_date">>, <<JList(hws), d>>)
NoDate(hws) == JDict(<<"homeworks">>, <<JList(hws)>>)

\* current_date as the server may supply it
DateOpts == {JInt(i) : i \in 1..MaxDate} \cup {JNull}

\* decoded bodies of a 200 reply: no new homework, a rejected homework, each
\* with every current_date and with none; two homeworks; records and bodies
\* of each shape the code rejects
Bodies ==
  {WithDate(l, d) : l \in {<<>>, <<Hw("hw1", "rejected")>>}, d \in DateOpts}
    \cup {NoDate(l) : l \in {<<>>, <<Hw("hw1", "rejected")>>}}
    \cup { WithDate(<<Hw("hw1", "approved"), Hw("hw2", "pending")>>, JInt(MaxDate)),
           WithDate(<<Hw("hw1", "pending")>>, JInt(MaxDate)),
           NoDate(<<JDict(<<"status">>, <<JStr("approved")>>)>>),
           JDict(<<"homeworks", "current_date">>, <<JDict(<<>>, <<>>), JInt(MaxDate)>>),
           JDict(<<>>, <<>>),
           JDict(<<"error">>, <<JStr("server error")>>),
           JInt(1) }

HttpReply(st, b) ==
  [transport |-> "ok", cause |-> <<>>, status |-> st, decodes |-> TRUE, body |-> b]
TransportFailure(c) ==
  [transport |-> "fail", cause |-> c, status |-> 0, decodes |-> FALSE, body |-> JNull]
Undecodable ==
  [transport |-> "ok", cause |-> <<>>, status |-> HTTP_OK, decodes |-> FALSE, body |-> JNull]

Replies ==
  {HttpReply(HTTP_OK, b) : b \in Bodies}
    \cup {HttpReply(404, JNull), Undecodable}
    \cup {TransportFailure(NETWORK_ERROR_MESSAGE), TransportFailure(<<"Read timed out">>)}

Deliveries ==
  { [ok |-> TRUE, cause |-> <<>>],
    [ok |-> FALSE, cause |-> <<"Bad Request: chat not found">>] }

Envs == [{TokenNames[i] : i \in 1..Len(TokenNames)} -> TokenValues]

(* ------------------------------ main ---------------------------------- *)
\* homeworks[0]
\* the last record taken, not the first
Index0_last(homeworks) ==
  IF homeworks.items = <<>>
    THEN Raise("IndexError", <<"list index out of range">>)
    ELSE Ok(homeworks.items[Len(homeworks.items)])

Index0(homeworks) ==
  IF homeworks.items = <<>>
    THEN Raise("IndexError", <<"list index out of range">>)
    ELSE Ok(homeworks.items[1])

Sent(k, message, delivery, r) ==
  [kind |-> k, text |-> message, delivered |-> delivery.ok, ret |-> r.ret,
   raised |-> r.raised]

\* the emptiness test left out
HasNew_always(homeworks) == TRUE

\* if homeworks:
HasNew(homeworks) == Truthy(homeworks)

\* the cursor never advanced
NextTimestamp_stale(response, timestamp) == timestamp

\* timestamp = response.get('current_date', timestamp)
NextTimestamp(response, timestamp) == DictGet(response, "current_date", timestamp)

\* the GETs one call of get_api_answer issues: requests.get stands once in
\* its body, in no loop
requests_get(timestamp, env) ==
  <<[url |-> ENDPOINT, headers |-> HEADERS(env), from_date |-> timestamp]>>

\* the try block of the loop body: what it leaves in timestamp, the
\* messages it handed to send_message, what it logged, and the exception it
\* raised, if any
TryBlock(timestamp, reply, delivery, env) ==
  LET quiet == [raised |-> FALSE, err |-> <<>>, timestamp |-> timestamp,
                sends |-> <<>>, log |-> <<>>]
      response == get_api_answer(timestamp, reply, env)
      homeworks == check_response(response.val)
      first == Index0(homeworks.val)
      message == parse_status(first.val)
      sent == send_message(message.msg, delivery)
  IN  IF ~response.ok THEN [quiet EXCEPT !.raised = TRUE, !.err = response.err]
      ELSE IF ~homeworks.ok THEN [quiet EXCEPT !.raised = TRUE, !.err = homeworks.err]
      ELSE IF ~HasNew(homeworks.val)
        THEN [quiet EXCEPT !.log = <<LogEntry("DEBUG", NO_NEW_UPDATES_MESSAGE, JNull)>>]
      ELSE IF ~first.ok THEN [quiet EXCEPT !.raised = TRUE, !.err = first.err]
      ELSE IF ~message.ok THEN [quiet EXCEPT !.raised = TRUE, !.err = message.err]
      ELSE IF sent.raised
        THEN [quiet EXCEPT !.raised = TRUE, !.err = sent.err,
                           !.sends = <<Sent("status", message.msg, delivery, sent)>>,
                           !.log = sent.log]
      ELSE [quiet EXCEPT !.timestamp = NextTimestamp(response.val, timestamp),
                         !.sends = <<Sent("status", message.msg, delivery, sent)>>,
                         !.log = sent.log]

\* the error logged and not sent
ExceptBlock_silent(error, delivery) ==
  LET message == REQUEST_ERROR_MESSAGE(error)
  IN  [raised |-> FALSE,
       message |-> message,
       sends |-> <<>>,
       log |-> <<LogEntry("ERROR", message, JNull)>>]

\* the except block of the loop body, entered with the caught exception's
\* str(); an exception of its own leaves main
ExceptBlock(error, delivery) ==
  LET message == REQUEST_ERROR_MESSAGE(error)
      sent == send_message(message, delivery)
  IN  [raised |-> sent.raised,
       message |-> message,
       sends |-> <<Sent("error", message, delivery, sent)>>,
       log |-> <<LogEntry("ERROR", message, JNull)>> \o sent.log]

VARIABLES
  env,        \* the three module-level tokens read by os.getenv
  pc,         \* where main() is
  timestamp,  \* main's local timestamp (None before it is assigned)
  startlog,   \* what check_tokens logged
  cyc,        \* the loop iteration under way or last finished
  prev,       \* the iteration before it
  served,     \* what the API and Telegram did in the iteration cyc
  network,    \* TRUE once a GET or a chat message has been issued
  older,      \* the iteration before prev, where a specification tracks it
  call        \* one function applied to one argument on its own

vars == <<env, pc, timestamp, startlog, cyc, prev, served, network, older, call>>

\* what a later iteration needs of the one before it
Summary(c) ==
  [done |-> c.done, from_date |-> c.from_date, failed |-> c.failed,
   message |-> c.message, sends |-> c.sends]

NoCycle ==
  [done |-> FALSE, from_date |-> JNull, before |-> JNull,
   after |-> JNull, failed |-> FALSE, message |-> <<>>, sends |-> <<>>, log |-> <<>>,
   requests |-> <<>>, slept |-> 0]

\* no function applied
NoCall ==
  [fn |-> "none", done |-> FALSE, value |-> JNull, reply |-> Undecodable,
   timestamp |-> JNull, requests |-> <<>>, res |-> Ok(JNull)]

Init ==
  /\ env \in Envs
  /\ pc = "start"
  /\ timestamp = JNull
  /\ startlog = <<>>
  /\ cyc = NoCycle
  /\ prev = Summary(NoCycle)
  /\ served = [reply |-> Undecodable, delivery |-> [ok |-> TRUE, cause |-> <<>>]]
  /\ network = FALSE
  /\ older = Summary(NoCycle)
  /\ call = NoCall

\* if not check_tokens(): return
CheckTokens ==
  /\ pc = "start"
  /\ LET r == check_tokens(env)
     IN  /\ startlog' = r.log
         /\ pc' = IF r.ret THEN "logging" ELSE "returned"
  /\ UNCHANGED <<env, timestamp, cyc, prev, served, network, older, call>>

\* logging.basicConfig(level=..., format=formatter, handlers=handlers) is
\* handed a logging.Formatter object where the format string belongs.
\* Python 3.8 and later validate the format string when the Formatter is
\* built and raise TypeError here; earlier interpreters accept the call.
SetupLogging ==
  /\ pc = "logging"
  /\ pc' \in {"bot", "raised"}
  /\ UNCHANGED <<env, timestamp, startlog, cyc, prev, served, network, older, call>>

\* bot = TeleBot(token=TELEGRAM_TOKEN); timestamp = int(time.time())
StartLoop ==
  /\ pc = "bot"
  /\ \E now \in 1..MaxStart : timestamp' = JInt(now)
  /\ pc' = "fetch"
  /\ UNCHANGED <<env, startlog, cyc, prev, served, network, older, call>>

\* one pass through the try/except of the loop body, up to time.sleep.
\* reply is what the API does with this pass's GET, delivery what Telegram
\* does with the messages of this pass.  t and e are the outcomes of the
\* try block and of the except block (e counts only when t raised).
Iteration ==
  /\ pc = "fetch"
  /\ \E reply \in Replies, delivery \in Deliveries :
       /\ served' = [reply |-> reply, delivery |-> delivery]
       /\ \E t \in {TryBlock(timestamp, reply, delivery, env)} :
          \E e \in {ExceptBlock(t.err, delivery)} :
            /\ timestamp' = t.timestamp
            /\ cyc' = [done |-> TRUE, from_date |-> timestamp,
                       before |-> timestamp, after |-> t.timestamp,
                       failed |-> t.raised,
                       message |-> IF t.raised THEN e.message ELSE <<>>,
                       sends |-> IF t.raised THEN t.sends \o e.sends ELSE t.sends,
                       log |-> IF t.raised THEN t.log \o e.log ELSE t.log,
                       requests |-> requests_get(timestamp, env),
                       slept |-> 0]
            /\ pc' = IF t.raised /\ e.raised THEN "raised" ELSE "sleep"
  /\ prev' = Summary(cyc)
  /\ network' = TRUE
  /\ UNCHANGED <<env, startlog, call>>

Poll == Iteration /\ UNCHANGED older

\* a status notification that was delivered
DeliveredStatus(c) ==
  c.done /\ ~c.failed /\ Len(c.sends) = 1 /\ c.sends[1].delivered

\* the same pass, with the iteration before prev remembered across a
\* delivered status notification
PollRemembering ==
  /\ Iteration
  /\ older' = IF DeliveredStatus(cyc) /\ prev.failed THEN prev ELSE Summary(NoCycle)

\* time.sleep(RETRY_PERIOD), then back to the top of while True
\* the loop going on to its next iteration without sleeping
Sleep_skipped ==
  /\ pc = "sleep"
  /\ pc' = "fetch"
  /\ UNCHANGED <<env, timestamp, startlog, cyc, prev, served, network, older, call>>

Sleep ==
  /\ pc = "sleep"
  /\ cyc' = [cyc EXCEPT !.slept = @ + RETRY_PERIOD]
  /\ pc' = "fetch"
  /\ UNCHANGED <<env, timestamp, startlog, prev, served, network, older, call>>

Next == CheckTokens \/ SetupLogging \/ StartLoop \/ Poll \/ Sleep

Spec == Init /\ [][Next]_vars

\* the interpreter runs main() step after step; nothing but the end of the
\* process stops it
FairSpec == Spec /\ WF_vars(Next)

NextRemembering == CheckTokens \/ SetupLogging \/ StartLoop \/ PollRemembering \/ Sleep

\* main, with three iterations in view
HistSpec == Init /\ [][NextRemembering]_vars

(* ------------------- the functions applied on their own --------------- *)
\* a key the dict does not have
Absent == [t |-> "absent", n |-> 0, s |-> "", keys |-> <<>>, items |-> <<>>]

\* the dict of the given keys, those with value Absent left out
RECURSIVE MkDict(_, _)
MkDict(ks, xs) ==
  IF ks = <<>> THEN JDict(<<>>, <<>>)
  ELSE LET rest == MkDict(Tail(ks), Tail(xs))
       IN  IF xs[1] = Absent THEN rest
           ELSE JDict(<<ks[1]>> \o rest.keys, <<xs[1]>> \o rest.items)

\* homework records: every way of having or lacking a name, with a status
\* of the enumeration, a string outside it, a value of another type, or none
RecordNames == {Absent, JStr("hw1"), JNull}
RecordStatuses ==
  { Absent, JStr("approved"), JStr("reviewing"), JStr("rejected"), JStr("pending"),
    JStr(""), JNull, JInt(1), JList(<<JStr("approved")>>) }
RecordArgs == {MkDict(<<"homework_name", "status">>, <<n, st>>) :
                 n \in RecordNames, st \in RecordStatuses}

\* decoded bodies handed to check_response: no mapping, no homeworks key,
\* homeworks of every type, with and without current_date
HomeworksValues ==
  { Absent, JInt(1), JStr("hw1"), JNull, JDict(<<>>, <<>>),
    JDict(<<"homework_name">>, <<JStr("hw1")>>),
    JList(<<>>), JList(<<Hw("hw1", "approved")>>),
    JList(<<Hw("hw1", "pending"), Hw("hw2", "approved")>>), JList(<<JInt(1)>>) }
ResponseArgs ==
  {MkDict(<<"homeworks", "current_date">>, <<h, d>>) :
     h \in HomeworksValues, d \in {Absent, JInt(MaxDate)}}
    \cup {JList(<<>>), JList(<<Hw("hw1", "approved")>>), JStr("homeworks"), JInt(1), JNull}

\* what requests.get may do for get_api_answer
FetchBodies ==
  { NoDate(<<>>), WithDate(<<Hw("hw1", "approved")>>, JInt(MaxDate)),
    JDict(<<"code">>, <<JStr("not_authenticated")>>),
    JDict(<<"error">>, <<JStr("server error")>>),
    JDict(<<"code", "error">>, <<JStr("UnknownError"), JStr("server error")>>),
    JDict(<<"homeworks", "error">>, <<JList(<<>>), JNull>>),
    JDict(<<>>, <<>>),
    JList(<<>>), JList(<<JStr("code")>>), JStr("error code"), JStr("ok"), JInt(1), JNull }
FetchReplies ==
  {HttpReply(st, b) : st \in {HTTP_OK, 404, 500}, b \in FetchBodies}
    \cup {Undecodable, [Undecodable EXCEPT !.status = 500]}
    \cup {TransportFailure(NETWORK_ERROR_MESSAGE), TransportFailure(<<"Read timed out">>)}

Calls ==
  {[NoCall EXCEPT !.fn = "parse_status", !.value = hw] : hw \in RecordArgs}
    \cup {[NoCall EXCEPT !.fn = "check_response", !.value = b] : b \in ResponseArgs}
    \cup {[NoCall EXCEPT !.fn = "get_api_answer", !.reply = r, !.timestamp = JInt(now)] :
            r \in FetchReplies, now \in 1..MaxStart}

InitCall ==
  /\ env = [k \in {TokenNames[i] : i \in 1..Len(TokenNames)} |-> JStr("secret")]
  /\ pc = "call"
  /\ timestamp = JNull
  /\ startlog = <<>>
  /\ cyc = NoCycle
  /\ prev = Summary(NoCycle)
  /\ served = [reply |-> Undecodable, delivery |-> [ok |-> TRUE, cause |-> <<>>]]
  /\ network = FALSE
  /\ older = Summary(NoCycle)
  /\ call \in Calls

Frame == UNCHANGED <<env, pc, timestamp, startlog, cyc, prev, served, network, older>>

ParseStatusCall ==
  /\ pc = "call" /\ call.fn = "parse_status" /\ ~call.done
  /\ call' = [call EXCEPT !.done = TRUE, !.res = parse_status(call.value)]
  /\ Frame

CheckResponseCall ==
  /\ pc = "call" /\ call.fn = "check_response" /\ ~call.done
  /\ call' = [call EXCEPT !.done = TRUE, !.res = check_response(call.value)]
  /\ Frame

GetApiAnswerCall ==
  /\ pc = "call" /\ call.fn = "get_api_answer" /\ ~call.done
  /\ call' = [call EXCEPT !.done = TRUE,
                          !.requests = requests_get(call.timestamp, env),
                          !.res = get_api_answer(call.timestamp, call.reply, env)]
  /\ Frame

NextCall == ParseStatusCall \/ CheckResponseCall \/ GetApiAnswerCall

\* one of parse_status, check_response, get_api_answer applied once
CallSpec == InitCall /\ [][NextCall]_vars

(* ========================= properties of the bot ====================== *)
InLoop == pc \in {"fetch", "sleep"}
Names == {TokenNames[i] : i \in 1..Len(TokenNames)}
Missing == {k \in Names : env[k] \in {JNull, JStr("")}}

\* what the API did in iteration cyc, told from its reply alone
Body(c) == served.reply.body
Decoded200(c) ==
  served.reply.transport = "ok" /\ served.reply.status = 200 /\ served.reply.decodes
ValidResponse(c) ==
  /\ Decoded200(c)
  /\ Body(c).t = "dict"
  /\ ~HasKey(Body(c), "code") /\ ~HasKey(Body(c), "error")
  /\ HasKey(Body(c), "homeworks")
  /\ DictGet(Body(c), "homeworks", JNull).t = "list"
Records(c) == DictGet(Body(c), "homeworks", JNull).items
FirstRecognized(c) ==
  /\ ValidResponse(c)
  /\ Records(c) # <<>>
  /\ Records(c)[1].t = "dict"
  /\ HasKey(Records(c)[1], "homework_name")
  /\ HasKey(Records(c)[1], "status")
  /\ DictGet(Records(c)[1], "status", JNull) \in
       {JStr("approved"), JStr("reviewing"), JStr("rejected")}
FirstUnrecognized(c) ==
  /\ ValidResponse(c)
  /\ Records(c) # <<>>
  /\ Records(c)[1].t = "dict"
  /\ DictGet(Records(c)[1], "status", JNull) = JStr("pending")
HomeworksIsMapping(c) ==
  /\ Decoded200(c)
  /\ Body(c).t = "dict"
  /\ DictGet(Body(c), "homeworks", JNull).t = "dict"
StatusMessage(hw) ==
  <<"Review status changed for \"", DictGet(hw, "homework_name", JNull).s, "\". ",
    DictGet(HOMEWORK_VERDICTS, DictGet(hw, "status", JNull).s, JNull).s>>

\* C1: two consecutive iterations that fail with the identical formatted
\* error text attempt exactly one chat notification between them, and the
\* second of them attempts none.
C1_RepeatedErrorNotifiedOnce ==
  (prev.done /\ cyc.done /\ prev.failed /\ cyc.failed /\ cyc.message = prev.message)
    => (Len(prev.sends) + Len(cyc.sends) = 1 /\ cyc.sends = <<>>)

\* C2: an iteration whose status message was handed to the notifier but
\* not delivered leaves the cursor where it was, so the next GET carries
\* the same from_date.
C2_CursorKeptWhenDeliveryFails ==
  (cyc.done /\ FirstRecognized(cyc) /\ ~served.delivery.ok)
    => (cyc.after = cyc.before /\ timestamp = cyc.before)

\* C3: an iteration with a well-formed response, a non-empty homeworks
\* list whose first record has a recognized status, and a successful
\* delivery sends exactly one message, the status message of the first
\* record, and leaves the cursor at the response's current_date when the
\* response has one and where it was when it has none.
C3_DeliveredCycleSendsOnceAndAdvances ==
  (cyc.done /\ FirstRecognized(cyc) /\ served.delivery.ok)
    => /\ Len(cyc.sends) = 1
       /\ cyc.sends[1].kind = "status"
       /\ cyc.sends[1].text = StatusMessage(Records(cyc)[1])
       /\ cyc.sends[1].delivered
       /\ cyc.after = IF HasKey(Body(cyc), "current_date")
                        THEN DictGet(Body(cyc), "current_date", JNull)
                        ELSE cyc.before
       /\ timestamp = cyc.after

C3_Witness ==
  /\ cyc.done /\ FirstRecognized(cyc) /\ served.delivery.ok
  /\ HasKey(Body(cyc), "current_date")
  /\ Len(cyc.sends) = 1
  /\ cyc.after # cyc.before

\* C4: an iteration whose validated response has an empty homeworks list
\* sends nothing and leaves the cursor where it was, whatever current_date
\* the response carries; the next GET carries the same from_date.
C4_EmptyListLeavesCursor ==
  (cyc.done /\ ValidResponse(cyc) /\ Records(cyc) = <<>>)
    => /\ cyc.sends = <<>>
       /\ ~cyc.failed
       /\ cyc.after = cyc.before
       /\ timestamp = cyc.before

C4_Witness ==
  /\ cyc.done /\ ValidResponse(cyc) /\ Records(cyc) = <<>>
  /\ HasKey(Body(cyc), "current_date")
  /\ DictGet(Body(cyc), "current_date", JNull) # cyc.before
  /\ pc = "fetch"

\* C5: once main is in its loop it stays there, whatever fails: every
\* iteration reaches the sleep and every sleep is followed by another
\* fetch.
C5_LoopNeverStops ==
  /\ [][InLoop => InLoop']_vars
  /\ (pc = "fetch") ~> (pc = "sleep")
  /\ (pc = "sleep") ~> (pc = "fetch")

\* an error report that could not be delivered, after an earlier iteration,
\* with main about to fetch again
C5_Witness ==
  /\ pc = "fetch"
  /\ prev.done /\ cyc.done /\ cyc.failed
  /\ Len(cyc.sends) = 1 /\ ~cyc.sends[1].delivered

\* C6: an iteration in which fetch, validation or translation fails (the
\* first record's status is "pending", homeworks is a mapping, ...) leaves
\* the cursor where it was and goes on to sleep, and the next GET carries
\* the from_date of the failed one.
C6_FailedCycleKeepsCursor ==
  /\ (cyc.done /\ (cyc.failed \/ FirstUnrecognized(cyc) \/ HomeworksIsMapping(cyc)))
       => (cyc.failed /\ cyc.after = cyc.before /\ timestamp = cyc.before /\ InLoop)
  /\ (prev.done /\ prev.failed /\ cyc.done) => cyc.from_date = prev.from_date

C6_Witness ==
  /\ prev.done /\ prev.failed /\ cyc.done
  /\ FirstUnrecognized(cyc)
  /\ HasKey(Body(cyc), "current_date")
  /\ DictGet(Body(cyc), "current_date", JNull) # cyc.before

\* C7: with a required token empty or unset main stops before the loop and
\* issues no GET and no chat message; with all three set the loop is
\* entered.
C7_GateDecidesEntry ==
  /\ Missing # {} => (pc \in {"start", "returned"} /\ ~network)
  /\ Missing = {} => pc \notin {"returned", "raised"}

\* C8: when check_tokens fails, its one critical log lists exactly the
\* names of the missing variables.
C8_LogListsMissingNames ==
  pc = "returned"
    => /\ Len(startlog) = 1
       /\ startlog[1].level = "CRITICAL"
       /\ {startlog[1].arg.items[i] : i \in 1..Len(startlog[1].arg.items)}
            = {JStr(k) : k \in Missing}

\* C9: send_message raises nothing and returns True when the message was
\* delivered and False when it was not.
C9_SendReportsDelivery ==
  \A i \in 1..Len(cyc.sends) :
    /\ ~cyc.sends[i].raised
    /\ cyc.sends[i].ret = JBool(cyc.sends[i].delivered)

\* C10: two consecutive failed iterations with different error texts each
\* attempt a notification; the text of a notification that failed to
\* deliver is retained all the same, so an iteration that fails with that
\* text again attempts none.
C10_LastErrorRetainedRegardlessOfDelivery ==
  (prev.done /\ cyc.done /\ prev.failed /\ cyc.failed)
    => /\ cyc.message # prev.message => (Len(prev.sends) = 1 /\ Len(cyc.sends) = 1)
       /\ (cyc.message = prev.message /\ Len(prev.sends) = 1 /\ ~prev.sends[1].delivered)
            => cyc.sends = <<>>

\* C11: an error text notified once is notified again when it recurs after
\* a delivered status notification: of three iterations in a row, the first
\* failing with text E, the second delivering a status message, the third
\* failing with E again, the first and the third each hand E to the notifier.
C11_ErrorNotifiedAgainAfterDeliveredStatus ==
  (older.done /\ older.failed /\ DeliveredStatus(prev)
     /\ cyc.done /\ cyc.failed /\ cyc.message = older.message)
    => /\ Len(older.sends) = 1
       /\ older.sends[1].kind = "error" /\ older.sends[1].text = older.message
       /\ Len(cyc.sends) = 1
       /\ cyc.sends[1].kind = "error" /\ cyc.sends[1].text = cyc.message

C11_Witness ==
  /\ older.done /\ older.failed /\ DeliveredStatus(prev)
  /\ cyc.done /\ cyc.failed /\ cyc.message = older.message
  /\ Len(cyc.sends) = 1 /\ cyc.sends[1].delivered
  /\ pc = "sleep"

\* C15: iterations follow one another, each issuing exactly one GET and
\* ending, whether it succeeded, found nothing or failed, in exactly one
\* sleep of RETRY_PERIOD seconds: while it sleeps it has issued its one GET
\* and slept nothing yet, and the next GET is issued only after it has slept
\* RETRY_PERIOD seconds, once.
C15_OneFetchOneSleepPerCycle ==
  /\ cyc.done => /\ pc \in {"sleep", "fetch"}
                 /\ Len(cyc.requests) = 1
                 /\ cyc.requests[1].from_date = cyc.from_date
  /\ (pc = "sleep") => cyc.done /\ cyc.slept = 0
  /\ (pc = "fetch" /\ cyc.done) => cyc.slept = RETRY_PERIOD
  /\ (pc = "fetch" /\ ~cyc.done) => cyc.requests = <<>> /\ cyc.slept = 0 /\ ~prev.done

\* a failed iteration after another iteration, slept out
C15_Witness ==
  /\ pc = "fetch" /\ cyc.done /\ cyc.failed /\ prev.done
  /\ cyc.slept = RETRY_PERIOD

\* C16: an iteration attempts at most one chat message: an error message
\* exactly when it failed, else a status message or none; of a non-empty
\* homeworks list only the first record is translated, so with a first
\* record of recognized status the iteration does not fail and its one
\* message is the status message of that record, whatever the records
\* after it are.
C16_AtMostOneMessageFirstRecordOnly ==
  cyc.done =>
    /\ Len(cyc.sends) <= 1
    /\ \A i \in 1..Len(cyc.sends) : (cyc.sends[i].kind = "error") <=> cyc.failed
    /\ \A i \in 1..Len(cyc.sends) : cyc.sends[i].kind \in {"status", "error"}
    /\ FirstRecognized(cyc)
         => /\ ~cyc.failed
            /\ Len(cyc.sends) = 1
            /\ cyc.sends[1].kind = "status"
            /\ cyc.sends[1].text = StatusMessage(Records(cyc)[1])

\* a list of two records, the second of unknown status, and no error
C16_Witness ==
  /\ cyc.done /\ FirstRecognized(cyc)
  /\ Len(Records(cyc)) = 2
  /\ DictGet(Records(cyc)[2], "status", JNull) = JStr("pending")
  /\ Len(cyc.sends) = 1 /\ ~cyc.failed
  /\ pc = "sleep"

\* C17: in every state of the loop main's timestamp is an integer, whatever
\* current_date the responses carried, so every GET of the loop carries an
\* integer from_date.
C17_CursorAlwaysInteger ==
  InLoop => /\ timestamp.t = "int"
            /\ cyc.done => cyc.requests[1].from_date.t = "int"

\* C18: an iteration whose 200 response decodes to something that is not
\* a mapping fails with check_response's not-a-mapping error: the error
\* text sent to the chat is that error, not one raised by get_api_answer's
\* look for the keys code and error.
C18_NonMappingBodyReachesValidator ==
  (cyc.done /\ Decoded200(cyc) /\ Body(cyc).t # "dict")
    => /\ cyc.failed
       /\ cyc.message = REQUEST_ERROR_MESSAGE(RESPONSE_NOT_DICT_MESSAGE(Str(Body(cyc))))

(* -------------------- the functions applied on their own -------------- *)
Applied(fn) == pc = "call" /\ call.fn = fn /\ call.done

\* the statuses of the enumeration
Enumeration == {JStr("approved"), JStr("reviewing"), JStr("rejected")}

\* C12: parse_status applied to a record fails with the missing-name error
\* when homework_name is absent (whether or not status is there), else with
\* the missing-status error when status is absent, else with the
\* unknown-status error when the status is not approved, reviewing or
\* rejected; otherwise it returns the message with the record's name in
\* quotes followed by the verdict of that status; no status outside the
\* enumeration yields a message.
C12_ParseStatusContract ==
  Applied("parse_status") =>
    LET homework == call.value
        name == DictGet(homework, "homework_name", JNull)
        status == DictGet(homework, "status", JNull)
        res == call.res
    IN  /\ IF ~HasKey(homework, "homework_name")
             THEN ~res.ok /\ res.err = MISSING_HOMEWORK_NAME_MESSAGE(Str(homework))
           ELSE IF ~HasKey(homework, "status")
             THEN ~res.ok /\ res.err = MISSING_HOMEWORK_STATUS_MESSAGE(Str(homework))
           ELSE IF status \notin Enumeration
             THEN ~res.ok /\ res.err = UNEXPECTED_HOMEWORK_STATUS_MESSAGE(Str(status))
           ELSE /\ res.ok
                /\ res.msg = <<"Review status changed for \"">> \o Str(name) \o <<"\". ">>
                               \o Str(DictGet(HOMEWORK_VERDICTS, status.s, JNull))
        /\ res.ok => HasKey(homework, "status") /\ status \in Enumeration

\* C13: check_response applied to a decoded body fails with the
\* not-a-mapping error when the body is no mapping, else with the missing-key
\* error when key homeworks is absent, else with the wrong-shape error when
\* homeworks is not a list; otherwise it returns the homeworks sequence
\* unchanged, the empty sequence included.
C13_CheckResponseContract ==
  Applied("check_response") =>
    LET response == call.value
        homeworks == DictGet(response, "homeworks", JNull)
        res == call.res
    IN  IF response.t # "dict"
          THEN ~res.ok /\ res.err = RESPONSE_NOT_DICT_MESSAGE(Str(response))
        ELSE IF ~HasKey(response, "homeworks")
          THEN ~res.ok /\ res.err = RESPONSE_MISSING_KEYS_MESSAGE(Str(response))
        ELSE IF homeworks.t # "list"
          THEN /\ ~res.ok
               /\ res.err = RESPONSE_HOMEWORKS_NOT_LIST_MESSAGE(TypeStr(homeworks),
                                                                 Str(homeworks))
        ELSE res.ok /\ res.val = homeworks

\* check_response has returned the empty sequence
C13_Witness ==
  /\ Applied("check_response")
  /\ HasKey(call.value, "homeworks")
  /\ call.res.ok /\ call.res.val = JList(<<>>)

\* a mapping with key code or key error
HasCodeOrError(body) ==
  body.t = "dict" /\ (HasKey(body, "code") \/ HasKey(body, "error"))

\* C14: get_api_answer issues exactly one GET per call; a transport failure
\* is reported as the transport error, a status other than 200 as the HTTP
\* status error whether or not the body could be decoded, a decoded 200
\* body with key code or key error as the API error, and every other
\* decoded 200 body is returned unmodified.
C14_GetApiAnswerContract ==
  Applied("get_api_answer") =>
    LET reply == call.reply
        res == call.res
    IN  /\ Len(call.requests) = 1
        /\ call.requests[1].from_date = call.timestamp
        /\ IF reply.transport = "fail"
             THEN /\ ~res.ok /\ res.exc = "RuntimeError"
                  /\ res.err = REQUEST_ERROR_MESSAGE(reply.cause)
           ELSE IF reply.status # HTTP_OK
             THEN /\ ~res.ok /\ res.exc = "HTTPError"
                  /\ res.err = API_STATUS_CODE_ERROR(
                                  IntStr(reply.status), ENDPOINT, HEADERS(env),
                                  Repr(JDict(<<"from_date">>, <<call.timestamp>>)))
           ELSE IF ~reply.decodes
             THEN ~res.ok
           ELSE IF HasCodeOrError(reply.body)
             THEN /\ ~res.ok /\ res.exc = "HTTPError"
                  /\ res.err = API_RESPONSE_ERROR(
                                  Str(DictGet(reply.body, "code", JNull)),
                                  Str(DictGet(reply.body, "error", JNull)))
           ELSE res.ok /\ res.val = reply.body

====
